---- MODULE Spec2Model ----
(***************************************************************************)
(* A model of the pr-labeler repository's two GitHub Actions:              *)
(*   - the team synchronisation run (src/unnamed/part_002), which makes    *)
(*     the organisation's teams match a declarative team-data file;        *)
(*   - the labeling run (src/unnamed/part_001), which labels a pull        *)
(*     request from glob rules and team membership.                        *)
(* An external call (an awaited client.* promise) is in flight from the    *)
(* moment the code issues it until the action named after it completes it; *)
(* that action then runs the code up to the next await, as the JavaScript  *)
(* event loop does.                                                        *)
(***************************************************************************)
EXTENDS Integers, Sequences, FiniteSets, TLC

VARIABLES
    \* ---- team synchronisation run (part_002) ----
    teamData,               \* the decoded team data, in Object.keys order
    ghTeams,                \* GitHub's teams: slug -> [exists, members]
    creatorJoins,           \* whether GitHub makes the creator a member of a new team
    authenticatedUserLogin, \* run(): login of the authenticated user
    pc,                     \* the await the run is suspended at, or "done"
    t,                      \* index in Object.keys(teamData) of the team in progress
    i,                      \* index of the username whose add/remove call is in flight
    existingTeam,           \* getExistingTeamAndMembers: truthiness of existingTeam
    existingMembers,        \* getExistingTeamAndMembers: existingMembers
    failed,                 \* core.setFailed was called
    calls,                  \* every external call issued so far, with its result
    snap,                   \* history: what the fetch of each team returned
    ghInit,                 \* history: GitHub's teams when the run started
    \* ---- labeling run (part_001) ----
    hasPullRequest,         \* github.context.payload.pull_request is set
    prAuthor,               \* pull_request.user.login
    configObject,           \* run(): the decoded configuration
    changedFiles,           \* run(): the pull request's changed files
    labelGlobs,             \* run(): Map label -> globs, as its entries in order
    teamLabelsToMembers,    \* run(): Map label -> usernames, as its entries in order
    labels,                 \* run(): the labels array
    additionalLabels,       \* run(): the team-derived labels
    shouldCloseAndReopenIssue, \* run(): the close/reopen flag
    prState,                \* GitHub's state of the pull request
    prLabels,               \* GitHub's labels on the pull request
    lpc,                    \* the await the labeling run is suspended at, or "done"
    lfailed,                \* core.setFailed was called
    lerror,                 \* the label named by the error message, if any
    ldecided,               \* history: line 92 was reached, the labels are computed
    lcalls                  \* every external call issued so far, with its result

syncVars == <<teamData, ghTeams, creatorJoins, authenticatedUserLogin, pc, t, i,
              existingTeam, existingMembers, failed, calls, snap, ghInit>>

labelVars == <<hasPullRequest, prAuthor, configObject, changedFiles, labelGlobs,
               teamLabelsToMembers, labels, additionalLabels,
               shouldCloseAndReopenIssue, prState, prLabels, lpc, lfailed, lerror,
               ldecided, lcalls>>

vars == <<syncVars, labelVars>>

----------------------------------------------------------------------------
(* Bounds and input pools *)

MaxDesired == 2

AllUsers == <<"alice", "bob", "svc-bot">>
Users == {AllUsers[k] : k \in 1..Len(AllUsers)}
Creator == "svc-bot"

TeamNames == <<"Core Team", "Infra">>
NumTeams == Len(TeamNames)

\* slugify(teamName, {decamelize: false})
Slugify(name) ==
    CASE name = "Core Team" -> "core-team"
      [] name = "Infra" -> "infra"
      [] OTHER -> "unknown-slug"

Slugs == {Slugify(TeamNames[k]) : k \in 1..NumTeams}

Rank(u) == CHOOSE k \in 1..Len(AllUsers) : AllUsers[k] = u

\* The member lists of the team data: up to MaxDesired usernames, repeats allowed.
\* The code uses a list's order only as the order of its add calls, so the lists
\* are taken up to permutation (in the order of AllUsers).
DesiredLists ==
    {d \in UNION {[1..n -> Users] : n \in 0..MaxDesired} :
        \A j \in 1..(Len(d) - 1) : Rank(d[j]) <= Rank(d[j + 1])}

\* The second team is there for the run to move on to: its lists hold one username
\* at most.
ShortLists == {d \in DesiredLists : Len(d) <= 1}

TeamDataPool ==
    {<<[name |-> TeamNames[1], members |-> d1],
       [name |-> TeamNames[2], members |-> d2]>> :
          d1 \in DesiredLists, d2 \in ShortLists}

NoUser == "-"

----------------------------------------------------------------------------
(* Helpers *)

\* Array.prototype.includes
Includes(seq, x) == \E k \in 1..Len(seq) : seq[k] = x

Range(seq) == {seq[k] : k \in 1..Len(seq)}

Min(S) == CHOOSE x \in S : \A y \in S : x <= y

\* membersResponse.data.map(m => m.login): the members as GitHub lists them
ListLogins(members) == SelectSeq(AllUsers, LAMBDA u : u \in members)

\* teamData[teamName].members.map(m => m.github)
DesiredMembers(k) == teamData[k].members

TeamSlug(k) == Slugify(teamData[k].name)

Call(op, team, user) == [op |-> op, team |-> team, user |-> user, res |-> "pending"]

\* the call in flight gets its result
Settle(res) == [calls EXCEPT ![Len(calls)].res = res]

----------------------------------------------------------------------------
(* Each run is an action of its own: while one runs, the other's state is idle *)

NoConfig == [file_pattern_labels |-> <<>>, team_labels |-> <<>>, location |-> FALSE]

LabelIdle ==
    /\ hasPullRequest = FALSE
    /\ prAuthor = NoUser
    /\ configObject = NoConfig
    /\ changedFiles = <<>>
    /\ labelGlobs = <<>>
    /\ teamLabelsToMembers = <<>>
    /\ labels = <<>>
    /\ additionalLabels = <<>>
    /\ shouldCloseAndReopenIssue = FALSE
    /\ prState = "open"
    /\ prLabels = {}
    /\ lpc = "idle"
    /\ lfailed = FALSE
    /\ lerror = <<>>
    /\ ldecided = FALSE
    /\ lcalls = <<>>

SyncIdle ==
    /\ teamData = <<>>
    /\ ghTeams = [s \in Slugs |-> [exists |-> FALSE, members |-> {}]]
    /\ creatorJoins = FALSE
    /\ authenticatedUserLogin = NoUser
    /\ pc = "idle"
    /\ t = 0
    /\ i = 0
    /\ existingTeam = FALSE
    /\ existingMembers = <<>>
    /\ failed = FALSE
    /\ calls = <<>>
    /\ snap = <<>>
    /\ ghInit = ghTeams

----------------------------------------------------------------------------
(* Team synchronisation run: src/unnamed/part_002 *)

NoSnap == [fetched |-> FALSE, exists |-> FALSE, members |-> <<>>]

TeamStates ==
    {[exists |-> FALSE, members |-> {}]}
        \cup {[exists |-> TRUE, members |-> m] : m \in SUBSET Users}

SyncInit ==
    /\ teamData = <<>>
    /\ ghTeams \in [Slugs -> TeamStates]
    /\ creatorJoins \in BOOLEAN
    /\ authenticatedUserLogin = NoUser
    /\ pc = "getAuthenticated"
    /\ t = 0
    /\ i = 0
    /\ existingTeam = FALSE
    /\ existingMembers = <<>>
    /\ failed = FALSE
    /\ calls = <<Call("getAuthenticated", "-", NoUser)>>
    /\ snap = [k \in 1..NumTeams |-> NoSnap]
    /\ ghInit = ghTeams
    /\ LabelIdle

\* Where the code suspends next: the await it reaches and the call it issues there.
Ctl(p, tt, ii, call) == [pc |-> p, t |-> tt, i |-> ii, call |-> call]

\* line 36: the for..of over Object.keys(teamData), entered at team k
NextTeamOf(data, k) ==
    IF k <= Len(data)
    THEN Ctl("getByName", k, 0, <<Call("getTeam", Slugify(data[k].name), NoUser)>>)
    ELSE Ctl("done", k, 0, <<>>)

NextTeam(k) == NextTeamOf(teamData, k)

\* mutant of NextAdd: the last add-member call of a team is issued without await, and
\* the loop of line 36 goes on to the next team at once
NextAdd_LastNotAwaited(k, tt, existing) ==
    LET desired == DesiredMembers(tt)
        todo == {j \in k..Len(desired) : ~Includes(existing, desired[j])}
        add == <<Call("addMember", TeamSlug(tt), desired[Min(todo)])>>
        next == NextTeam(tt + 1)
    IN  IF todo = {} THEN next
        ELSE IF Cardinality(todo) = 1 THEN Ctl(next.pc, next.t, next.i, add \o next.call)
        ELSE Ctl("add", tt, Min(todo), add)

\* lines 80-89: the add loop over desiredMembers, entered at index k
NextAdd(k, tt, existing) ==
    LET desired == DesiredMembers(tt)
        todo == {j \in k..Len(desired) : ~Includes(existing, desired[j])}
    IN  IF todo # {}
        THEN Ctl("add", tt, Min(todo),
                 <<Call("addMember", TeamSlug(tt), desired[Min(todo)])>>)
        ELSE NextTeam(tt + 1)

\* mutant of NextRemove: line 56 tests existingMembers.includes(username), which
\* always holds, so that no member is ever removed
NextRemove_WrongList(k, tt, existing) ==
    LET todo == {j \in k..Len(existing) : ~Includes(existing, existing[j])}
    IN  IF todo # {}
        THEN Ctl("remove", tt, Min(todo),
                 <<Call("removeMember", TeamSlug(tt), existing[Min(todo)])>>)
        ELSE NextAdd(1, tt, existing)

\* mutant of NextRemove: line 56 is dropped, every existing member is removed (and
\* only those that were not members are added afterwards)
NextRemove_Everyone(k, tt, existing) ==
    IF k <= Len(existing)
    THEN Ctl("remove", tt, k, <<Call("removeMember", TeamSlug(tt), existing[k])>>)
    ELSE NextAdd(1, tt, existing)

\* lines 55-66: the remove loop over existingMembers, entered at index k
NextRemove(k, tt, existing) ==
    LET desired == DesiredMembers(tt)
        todo == {j \in k..Len(existing) : ~Includes(desired, existing[j])}
    IN  IF todo # {}
        THEN Ctl("remove", tt, Min(todo),
                 <<Call("removeMember", TeamSlug(tt), existing[Min(todo)])>>)
        ELSE NextAdd(1, tt, existing)

\* lines 67-78, 100-104: the else branch calls createTeamWithNoMembers
NextCreate(tt) ==
    Ctl("create", tt, 0, <<Call("createTeam", TeamSlug(tt), NoUser)>>)

\* the call in flight returned `res`; the code runs on to the await of `ctl`
Resume(ctl, res) ==
    /\ pc' = ctl.pc
    /\ t' = ctl.t
    /\ i' = ctl.i
    /\ calls' = Settle(res) \o ctl.call
    /\ failed' = failed

\* lines 24-27: the call in flight threw; run's catch block sets the failure status
Throw(res) ==
    /\ pc' = "done"
    /\ failed' = TRUE
    /\ calls' = Settle(res)
    /\ UNCHANGED <<t, i>>

\* What the collaborator may answer to a membership call
RemoveOutcomes(slug, u) ==
    IF u \in ghTeams[slug].members THEN {"ok", "error"} ELSE {"ok", "noop", "error"}

AddOutcomes(slug, u) ==
    IF u \notin ghTeams[slug].members THEN {"ok", "error"} ELSE {"ok", "noop", "error"}

\* line 14: client.users.getAuthenticated()
GetAuthenticated ==
    /\ pc = "getAuthenticated"
    /\ \E res \in {"ok", "error"} :
          IF res = "ok"
          THEN /\ authenticatedUserLogin' = Creator
               /\ Resume(Ctl("getTeamData", 0, 0, <<Call("getContents", "-", NoUser)>>), res)
          ELSE /\ Throw(res)
               /\ UNCHANGED authenticatedUserLogin
    /\ UNCHANGED <<teamData, ghTeams, creatorJoins, existingTeam, existingMembers,
                   snap, ghInit>>
    /\ UNCHANGED labelVars

\* lines 19-23: getTeamData, then synchronizeTeamData is entered
GetTeamData ==
    /\ pc = "getTeamData"
    /\ \E res \in {"ok", "error"} :
          IF res = "ok"
          THEN /\ teamData' \in TeamDataPool
               /\ Resume(NextTeamOf(teamData', 1), res)
          ELSE /\ Throw(res)
               /\ UNCHANGED teamData
    /\ UNCHANGED <<ghTeams, creatorJoins, authenticatedUserLogin,
                   existingTeam, existingMembers, snap, ghInit>>
    /\ UNCHANGED labelVars

\* lines 120-129, 137-141, 51, 67: client.teams.getByName returns or throws
GetByName ==
    /\ pc = "getByName"
    /\ \E res \in (IF ghTeams[TeamSlug(t)].exists THEN {"ok", "error"}
                                                  ELSE {"notfound", "error"}) :
          IF res = "ok"
          THEN /\ existingTeam' = TRUE
               /\ existingMembers' = <<>>
               /\ snap' = snap
               /\ Resume(Ctl("listMembers", t, 0,
                             <<Call("listMembers", TeamSlug(t), NoUser)>>), res)
          ELSE /\ existingTeam' = FALSE
               /\ existingMembers' = <<>>
               /\ snap' = [snap EXCEPT ![t] =
                             [fetched |-> TRUE, exists |-> FALSE, members |-> <<>>]]
               /\ Resume(NextCreate(t), res)
    /\ UNCHANGED <<teamData, ghTeams, creatorJoins, authenticatedUserLogin, ghInit>>
    /\ UNCHANGED labelVars

\* lines 131-141, 51-55, 67: client.teams.listMembersInOrg returns or throws
ListMembers ==
    /\ pc = "listMembers"
    /\ \E res \in {"ok", "error"} :
          IF res = "ok"
          THEN LET logins == ListLogins(ghTeams[TeamSlug(t)].members)
               IN  /\ existingTeam' = TRUE
                   /\ existingMembers' = logins
                   /\ snap' = [snap EXCEPT ![t] =
                                 [fetched |-> TRUE, exists |-> TRUE, members |-> logins]]
                   /\ Resume(NextRemove(1, t, logins), res)
          ELSE /\ existingTeam' = FALSE
               /\ existingMembers' = <<>>
               /\ snap' = [snap EXCEPT ![t] =
                             [fetched |-> TRUE, exists |-> FALSE, members |-> <<>>]]
               /\ Resume(NextCreate(t), res)
    /\ UNCHANGED <<teamData, ghTeams, creatorJoins, authenticatedUserLogin, ghInit>>
    /\ UNCHANGED labelVars

\* lines 55-66: client.teams.removeMembershipInOrg for existingMembers[i]
RemoveMember ==
    /\ pc = "remove"
    /\ LET slug == TeamSlug(t)
           username == existingMembers[i]
       IN  \E res \in RemoveOutcomes(slug, username) :
              IF res = "ok"
              THEN /\ ghTeams' = [ghTeams EXCEPT ![slug].members = @ \ {username}]
                   /\ Resume(NextRemove(i + 1, t, existingMembers), res)
              ELSE /\ Throw(res)
                   /\ UNCHANGED ghTeams
    /\ UNCHANGED <<teamData, creatorJoins, authenticatedUserLogin, existingTeam,
                   existingMembers, snap, ghInit>>
    /\ UNCHANGED labelVars

\* mutant of CreateTeam: createTeamWithNoMembers forgets lines 108-112 and leaves
\* the creator in the new team
CreateTeam_KeepsCreator ==
    /\ pc = "create"
    /\ LET slug == TeamSlug(t)
       IN  \E res \in (IF ghTeams[slug].exists THEN {"error"} ELSE {"ok", "error"}) :
              IF res = "ok"
              THEN /\ ghTeams' = [ghTeams EXCEPT ![slug] =
                        [exists |-> TRUE,
                         members |-> IF creatorJoins THEN {authenticatedUserLogin}
                                                     ELSE {}]]
                   /\ Resume(NextAdd(1, t, existingMembers), res)
              ELSE /\ Throw(res)
                   /\ UNCHANGED ghTeams
    /\ UNCHANGED <<teamData, creatorJoins, authenticatedUserLogin, existingTeam,
                   existingMembers, snap, ghInit>>
    /\ UNCHANGED labelVars

\* mutant of CreateTeam: the creator's removal of lines 108-112 is issued without
\* await, and the add loop is entered at once
CreateTeam_RemovalNotAwaited ==
    /\ pc = "create"
    /\ LET slug == TeamSlug(t)
           ctl == NextAdd(1, t, existingMembers)
       IN  \E res \in (IF ghTeams[slug].exists THEN {"error"} ELSE {"ok", "error"}) :
              IF res = "ok"
              THEN /\ ghTeams' = [ghTeams EXCEPT ![slug] =
                        [exists |-> TRUE,
                         members |-> IF creatorJoins THEN {authenticatedUserLogin}
                                                     ELSE {}]]
                   /\ pc' = ctl.pc
                   /\ t' = ctl.t
                   /\ i' = ctl.i
                   /\ calls' = Settle(res)
                                 \o <<Call("removeMember", slug, authenticatedUserLogin)>>
                                 \o ctl.call
                   /\ failed' = failed
              ELSE /\ Throw(res)
                   /\ UNCHANGED ghTeams
    /\ UNCHANGED <<teamData, creatorJoins, authenticatedUserLogin, existingTeam,
                   existingMembers, snap, ghInit>>
    /\ UNCHANGED labelVars

\* lines 100-112: client.teams.create, then the creator's removal is issued
CreateTeam ==
    /\ pc = "create"
    /\ LET slug == TeamSlug(t)
       IN  \E res \in (IF ghTeams[slug].exists THEN {"error"} ELSE {"ok", "error"}) :
              IF res = "ok"
              THEN /\ ghTeams' = [ghTeams EXCEPT ![slug] =
                        [exists |-> TRUE,
                         members |-> IF creatorJoins THEN {authenticatedUserLogin}
                                                     ELSE {}]]
                   /\ Resume(Ctl("removeCreator", t, 0,
                                 <<Call("removeMember", slug, authenticatedUserLogin)>>),
                             res)
              ELSE /\ Throw(res)
                   /\ UNCHANGED ghTeams
    /\ UNCHANGED <<teamData, creatorJoins, authenticatedUserLogin, existingTeam,
                   existingMembers, snap, ghInit>>
    /\ UNCHANGED labelVars

\* lines 108-112, 80: the creator's removal returns; the add loop is entered
RemoveCreator ==
    /\ pc = "removeCreator"
    /\ LET slug == TeamSlug(t)
       IN  \E res \in RemoveOutcomes(slug, authenticatedUserLogin) :
              IF res = "ok"
              THEN /\ ghTeams' = [ghTeams EXCEPT
                                    ![slug].members = @ \ {authenticatedUserLogin}]
                   /\ Resume(NextAdd(1, t, existingMembers), res)
              ELSE /\ Throw(res)
                   /\ UNCHANGED ghTeams
    /\ UNCHANGED <<teamData, creatorJoins, authenticatedUserLogin, existingTeam,
                   existingMembers, snap, ghInit>>
    /\ UNCHANGED labelVars

\* mutant of AddMember: the call is wrapped in a try/catch that swallows its error,
\* and the loop goes on
AddMember_SwallowsError ==
    /\ pc = "add"
    /\ LET slug == TeamSlug(t)
           username == DesiredMembers(t)[i]
       IN  \E res \in AddOutcomes(slug, username) :
              /\ ghTeams' = IF res = "ok"
                            THEN [ghTeams EXCEPT ![slug].members = @ \cup {username}]
                            ELSE ghTeams
              /\ Resume(NextAdd(i + 1, t, existingMembers), res)
    /\ UNCHANGED <<teamData, creatorJoins, authenticatedUserLogin, existingTeam,
                   existingMembers, snap, ghInit>>
    /\ UNCHANGED labelVars

\* lines 80-89: client.teams.addOrUpdateMembershipInOrg for desiredMembers[i]
AddMember ==
    /\ pc = "add"
    /\ LET slug == TeamSlug(t)
           username == DesiredMembers(t)[i]
       IN  \E res \in AddOutcomes(slug, username) :
              IF res = "ok"
              THEN /\ ghTeams' = [ghTeams EXCEPT ![slug].members = @ \cup {username}]
                   /\ Resume(NextAdd(i + 1, t, existingMembers), res)
              ELSE /\ Throw(res)
                   /\ UNCHANGED ghTeams
    /\ UNCHANGED <<teamData, creatorJoins, authenticatedUserLogin, existingTeam,
                   existingMembers, snap, ghInit>>
    /\ UNCHANGED labelVars

SyncNext ==
    \/ GetAuthenticated
    \/ GetTeamData
    \/ GetByName
    \/ ListMembers
    \/ RemoveMember
    \/ CreateTeam
    \/ RemoveCreator
    \/ AddMember

SpecSync == SyncInit /\ [][SyncNext]_vars

----------------------------------------------------------------------------
(* Labeling run: src/unnamed/part_001 *)

MaxFiles == 2

\* Paths, globs and labels are sequences of characters.
F_docs == <<"d", "o", "c", "s", "/", "r", ".", "m", "d">>
F_yml == <<"a", ".", "y", "m", "l">>
F_nested == <<"s", "r", "c", "/", "a", ".", "y", "m", "l">>
Files == {F_docs, F_yml, F_nested}

P_docs == <<"d", "o", "c", "s", "/", "*", "*">>
P_yml == <<"*", ".", "y", "m", "l">>
P_yaml == <<"*", ".", "y", "a", "m", "l">>
P_any == <<"*", "*", "/", "?", ".", "y", "m", "l">>

L_docs == <<"d", "o", "c", "s">>
L_build == <<"b", "u", "i", "l", "d">>
L_ops == <<"#", "o", "p", "s">>

Authors == {"dave", "erin"}

FileLists == UNION {[1..n -> Files] : n \in 0..MaxFiles}

\* ---- minimatch, as checkGlobs uses it (default options) ----

RECURSIVE SplitFrom(_, _, _)
SplitFrom(s, k, cur) ==
    IF k > Len(s) THEN <<cur>>
    ELSE IF s[k] = "/" THEN <<cur>> \o SplitFrom(s, k + 1, <<>>)
    ELSE SplitFrom(s, k + 1, Append(cur, s[k]))

\* a path or a pattern split at its slashes
SplitSlash(s) == SplitFrom(s, 1, <<>>)

GLOBSTAR == <<"*", "*">>

HasMagic(part) == \E k \in 1..Len(part) : part[k] \in {"*", "?"}

\* the regular expression of one pattern part: * is [^/]*?, ? is [^/]
RECURSIVE Wild(_, _)
Wild(p, f) ==
    IF p = <<>> THEN f = <<>>
    ELSE IF Head(p) = "*" THEN Wild(Tail(p), f) \/ (f # <<>> /\ Wild(p, Tail(f)))
    ELSE IF Head(p) = "?" THEN f # <<>> /\ Wild(Tail(p), Tail(f))
    ELSE f # <<>> /\ Head(f) = Head(p) /\ Wild(Tail(p), Tail(f))

\* one path part against one pattern part: a plain part is compared, a magic one
\* matches a non-empty part, and no leading dot when it starts with * or ?
PartMatch(p, f) ==
    IF ~HasMagic(p) THEN f = p
    ELSE /\ f # <<>>
         /\ (Head(p) \in {"*", "?"} => Head(f) # ".")
         /\ Wild(p, f)

DotPart(f) == f # <<>> /\ Head(f) = "."

\* Minimatch.matchOne on the parts from fi and pi on
RECURSIVE MatchOne(_, _, _, _)
MatchOne(file, pattern, fi, pi) ==
    IF fi > Len(file) \/ pi > Len(pattern)
    THEN IF fi > Len(file) /\ pi > Len(pattern) THEN TRUE
         ELSE IF fi > Len(file) THEN FALSE
         ELSE fi = Len(file) /\ file[fi] = <<>>
    ELSE IF pattern[pi] = GLOBSTAR
    THEN IF pi = Len(pattern)
         THEN \A k \in fi..Len(file) : ~DotPart(file[k])
         ELSE \E fr \in fi..Len(file) :
                 /\ \A k \in fi..(fr - 1) : ~DotPart(file[k])
                 /\ MatchOne(file, pattern, fr, pi + 1)
    ELSE /\ PartMatch(pattern[pi], file[fi])
         /\ MatchOne(file, pattern, fi + 1, pi + 1)

\* lines 202, 205: new Minimatch(glob).match(changedFile)
Match(glob, changedFile) == MatchOne(SplitSlash(changedFile), SplitSlash(glob), 1, 1)

\* ---- the configuration ----

Str(g) == [type |-> "string", str |-> g, arr |-> <<>>]
Arr(a) == [type |-> "array", str |-> <<>>, arr |-> a]
Num == [type |-> "number", str |-> <<>>, arr |-> <<>>]

RuleValues == {Str(P_docs), Str(P_yml), Arr(<<P_yml, P_yaml>>), Arr(<<P_yaml, P_any>>),
               Arr(<<>>), Num}

\* configObject.file_pattern_labels: the entries of the object, in key order
FilePatternLabels ==
    {<<>>}
      \cup {<<[label |-> L_docs, value |-> v]>> : v \in RuleValues}
      \cup {<<[label |-> L_build, value |-> v]>> : v \in RuleValues}
      \cup {<<[label |-> L_docs, value |-> v], [label |-> L_build, value |-> w]>> :
               v \in RuleValues, w \in RuleValues}

\* configObject.team_labels: the entries of the object, in key order
TeamLabels ==
    {<<>>,
     <<[label |-> L_build, members |-> <<"dave">>]>>,
     <<[label |-> L_ops, members |-> <<"dave">>]>>,
     <<[label |-> L_build, members |-> <<"dave">>],
       [label |-> L_ops, members |-> <<"erin", "unknown">>]>>,
     <<[label |-> L_build, members |-> <<"erin", "unknown">>],
       [label |-> L_ops, members |-> <<"dave", "erin">>]>>}

ConfigPool ==
    {[file_pattern_labels |-> f, team_labels |-> tl, location |-> FALSE] :
        f \in FilePatternLabels, tl \in TeamLabels}
      \cup {[file_pattern_labels |-> f, team_labels |-> <<>>, location |-> TRUE] :
               f \in FilePatternLabels}

\* ---- the pure functions of part_001 ----

\* mutant of getLabelGlobMapFromObject: a value that is neither a string nor an array
\* is read as a rule without globs
RECURSIVE getLabelGlobMapFromObject_SkipsNumber(_)
getLabelGlobMapFromObject_SkipsNumber(obj) ==
    IF obj = <<>> THEN [ok |-> TRUE, map |-> <<>>, label |-> <<>>]
    ELSE LET e == Head(obj)
             rest == getLabelGlobMapFromObject_SkipsNumber(Tail(obj))
         IN  [ok |-> TRUE,
              map |-> <<[label |-> e.label,
                         globs |-> IF e.value.type = "string"
                                   THEN <<e.value.str>> ELSE e.value.arr]>>
                      \o rest.map,
              label |-> <<>>]

\* lines 182-197
RECURSIVE getLabelGlobMapFromObject(_)
getLabelGlobMapFromObject(obj) ==
    IF obj = <<>> THEN [ok |-> TRUE, map |-> <<>>, label |-> <<>>]
    ELSE LET e == Head(obj)
             rest == getLabelGlobMapFromObject(Tail(obj))
         IN  IF e.value.type = "number"
             THEN [ok |-> FALSE, map |-> <<>>, label |-> e.label]
             ELSE IF ~rest.ok THEN rest
             ELSE [ok |-> TRUE,
                   map |-> <<[label |-> e.label,
                              globs |-> IF e.value.type = "string"
                                        THEN <<e.value.str>> ELSE e.value.arr]>>
                           \o rest.map,
                   label |-> <<>>]

\* lines 203-209: the inner loop over changedFiles, from index k
RECURSIVE FileLoop(_, _, _)
FileLoop(files, glob, k) ==
    IF k > Len(files) THEN FALSE
    ELSE IF Match(glob, files[k]) THEN TRUE
    ELSE FileLoop(files, glob, k + 1)

\* lines 200-211: the outer loop over globs, from index k
RECURSIVE GlobLoop(_, _, _)
GlobLoop(files, globs, k) ==
    IF k > Len(globs) THEN FALSE
    ELSE IF FileLoop(files, globs[k], 1) THEN TRUE
    ELSE GlobLoop(files, globs, k + 1)

\* mutant of checkGlobs: a rule matches only when every one of its globs matches a
\* changed file
checkGlobs_EveryGlob(files, globs) ==
    /\ Len(globs) > 0
    /\ \A k \in 1..Len(globs) : FileLoop(files, globs[k], 1)

\* lines 199-212
checkGlobs(files, globs) == GlobLoop(files, globs, 1)

\* mutant of GlobLabels: the loop of lines 82-87 stops at the first rule that matches
RECURSIVE GlobLabels_StopsAtFirstMatch(_, _)
GlobLabels_StopsAtFirstMatch(files, entries) ==
    IF entries = <<>> THEN <<>>
    ELSE IF checkGlobs(files, Head(entries).globs) THEN <<Head(entries).label>>
    ELSE GlobLabels_StopsAtFirstMatch(files, Tail(entries))

\* lines 81-87: the labels array after the loop over labelGlobs.entries()
RECURSIVE GlobLabels(_, _)
GlobLabels(files, entries) ==
    IF entries = <<>> THEN <<>>
    ELSE (IF checkGlobs(files, Head(entries).globs) THEN <<Head(entries).label>>
                                                     ELSE <<>>)
            \o GlobLabels(files, Tail(entries))

\* lines 6-14
RECURSIVE getTeamLabel(_, _)
getTeamLabel(labelsConfiguration, author) ==
    IF labelsConfiguration = <<>> THEN <<>>
    ELSE (IF Includes(Head(labelsConfiguration).members, author)
          THEN <<Head(labelsConfiguration).label>> ELSE <<>>)
            \o getTeamLabel(Tail(labelsConfiguration), author)

\* lines 16-23
getPrAuthor == IF ~hasPullRequest THEN "unknown" ELSE prAuthor

\* line 223: l.replace(/#/g, '')
StripHash(l) == SelectSeq(l, LAMBDA c : c # "#")

\* line 223: labels.map(l => l.replace(/#/g, ''))
MapStripHash(ls) == [k \in 1..Len(ls) |-> StripHash(ls[k])]

\* ---- the externally hosted teams file (lines 53-76) ----

Team(name, hasMembers, members, short) ==
    [name |-> name, hasMembers |-> hasMembers, members |-> members, short |-> short]

T_ops == <<"O", "p", "s">>

\* the decoded teams file: the entries of the object, in key order
TeamsDataPool ==
    {<<>>,
     <<Team(L_build, TRUE, <<"dave">>, <<>>)>>,
     <<Team(T_ops, TRUE, <<"dave", "erin">>, L_ops)>>,
     <<Team(L_build, TRUE, <<"erin">>, <<>>), Team(T_ops, TRUE, <<"dave">>, L_ops)>>,
     <<Team(L_build, TRUE, <<"erin">>, <<>>), Team(T_ops, TRUE, <<"dave">>, L_build)>>,
     <<Team(L_build, TRUE, <<"dave">>, <<>>), Team(T_ops, FALSE, <<>>, <<>>)>>}

\* lines 61-75: Object.entries(teamsData).map(...)
TeamEntries(teamsData) ==
    [k \in 1..Len(teamsData) |->
        [label |-> IF teamsData[k].short # <<>> THEN teamsData[k].short
                                                ELSE teamsData[k].name,
         members |-> teamsData[k].members]]

\* line 60: new Map(entries): a repeated key keeps its first place and its last value
RECURSIVE NewMap(_)
NewMap(entries) ==
    IF entries = <<>> THEN <<>>
    ELSE LET n == Len(entries)
             last == entries[n]
             front == NewMap(SubSeq(entries, 1, n - 1))
         IN  IF \E k \in 1..Len(front) : front[k].label = last.label
             THEN [k \in 1..Len(front) |->
                     IF front[k].label = last.label THEN last ELSE front[k]]
             ELSE Append(front, last)

\* ---- the run ----

LabelInit ==
    /\ hasPullRequest \in BOOLEAN
    /\ prAuthor \in (IF hasPullRequest THEN Authors ELSE {NoUser})
    /\ configObject = NoConfig
    /\ changedFiles = <<>>
    /\ labelGlobs = <<>>
    /\ teamLabelsToMembers = <<>>
    /\ labels = <<>>
    /\ additionalLabels = <<>>
    /\ shouldCloseAndReopenIssue = FALSE
    /\ prState = "open"
    /\ prLabels = {}
    \* lines 30-34: without a pull request number the run returns at once
    /\ lpc = IF hasPullRequest THEN "getConfig" ELSE "done"
    /\ lfailed = FALSE
    /\ lerror = <<>>
    /\ ldecided = FALSE
    /\ lcalls = IF hasPullRequest
                THEN <<[op |-> "getContents", state |-> "-", labels |-> <<>>,
                        res |-> "pending"]>>
                ELSE <<>>
    /\ SyncIdle

LCall(op, state, ls) == [op |-> op, state |-> state, labels |-> ls, res |-> "pending"]

LSettle(res) == [lcalls EXCEPT ![Len(lcalls)].res = res]

\* lines 114-117: an exception reaches run's catch block
LThrow(res, label) ==
    /\ lpc' = "done"
    /\ lfailed' = TRUE
    /\ lerror' = label
    /\ lcalls' = LSettle(res)
    /\ UNCHANGED ldecided

\* the call in flight returned; the code runs on to the await `p`, issuing `call`
LResume(p, call, res) ==
    /\ lpc' = p
    /\ lcalls' = LSettle(res) \o call
    /\ UNCHANGED <<lfailed, lerror>>

\* line 90: additionalLabels.forEach(l => labels.push(l))
PushAll(globLabels, teamLabels) == globLabels \o teamLabels

\* mutant of ShouldCloseAndReopen: line 92 reads labels.length > 0
ShouldCloseAndReopen_AnyLabel(teamLabels, allLabels) == Len(allLabels) > 0

\* line 92
ShouldCloseAndReopen(teamLabels, allLabels) == Len(teamLabels) > 0

\* mutant of AddLabelsCall: line 102 is dropped, addLabels is called with any array
AddLabelsCall_Unguarded(ls) == <<LCall("addLabels", "-", MapStripHash(ls))>>

\* lines 102-104, 219-224: the addLabels call, if one is made
AddLabelsCall(ls) ==
    IF Len(ls) > 0 THEN <<LCall("addLabels", "-", MapStripHash(ls))>> ELSE <<>>

\* lines 106-113: the reopening call, if one is made
OpenCall(flag) == IF flag THEN <<LCall("setState", "open", <<>>)>> ELSE <<>>

\* the call issued next, of these calls still to make
FirstOf(todo) == IF todo = <<>> THEN <<>> ELSE <<todo[1]>>

\* the await reached with these calls still to make, in order
AwaitOf(todo) ==
    IF todo = <<>> THEN "done"
    ELSE IF todo[1].op = "addLabels" THEN "addLabels"
    ELSE IF todo[1].state = "closed" THEN "close" ELSE "open"

\* lines 81-100: the labels are computed and the first side effect is issued
Decide(files, globMap, teamMap, res) ==
    LET teamLabels == getTeamLabel(teamMap, getPrAuthor)
        allLabels == PushAll(GlobLabels(files, globMap), teamLabels)
        flag == ShouldCloseAndReopen(teamLabels, allLabels)
        todo == (IF flag THEN <<LCall("setState", "closed", <<>>)>> ELSE <<>>)
                    \o AddLabelsCall(allLabels) \o OpenCall(flag)
    IN  /\ labels' = allLabels
        /\ additionalLabels' = teamLabels
        /\ shouldCloseAndReopenIssue' = flag
        /\ ldecided' = TRUE
        /\ LResume(AwaitOf(todo), FirstOf(todo), res)

\* line 40: getConfigurationContents returns or throws
GetConfigurationContents ==
    /\ lpc = "getConfig"
    /\ \E res \in {"ok", "error"} :
          IF res = "ok"
          THEN /\ configObject' \in ConfigPool
               /\ LResume("listFiles", <<LCall("listFiles", "-", <<>>)>>, res)
               /\ UNCHANGED ldecided
          ELSE /\ LThrow(res, <<>>)
               /\ UNCHANGED configObject
    /\ UNCHANGED <<hasPullRequest, prAuthor, changedFiles, labelGlobs,
                   teamLabelsToMembers, labels, additionalLabels,
                   shouldCloseAndReopenIssue, prState, prLabels>>
    /\ UNCHANGED syncVars

\* lines 43-56, 77-100: getChangedFiles returns or throws; the globs are read
GetChangedFiles ==
    /\ lpc = "listFiles"
    /\ \E res \in {"ok", "error"} :
          IF res = "ok"
          THEN \E files \in FileLists :
                  LET globs == getLabelGlobMapFromObject(configObject.file_pattern_labels)
                  IN  /\ changedFiles' = files
                      /\ IF ~globs.ok
                         THEN /\ LThrow(res, globs.label)
                              /\ UNCHANGED <<labelGlobs, teamLabelsToMembers, labels,
                                             additionalLabels, shouldCloseAndReopenIssue>>
                         ELSE IF configObject.location
                         THEN /\ labelGlobs' = globs.map
                              /\ LResume("getTeams",
                                         <<LCall("getContents", "-", <<>>)>>, res)
                              /\ UNCHANGED ldecided
                              /\ UNCHANGED <<teamLabelsToMembers, labels,
                                             additionalLabels, shouldCloseAndReopenIssue>>
                         ELSE /\ labelGlobs' = globs.map
                              /\ teamLabelsToMembers' = NewMap(configObject.team_labels)
                              /\ Decide(files, globs.map,
                                        NewMap(configObject.team_labels), res)
          ELSE /\ LThrow(res, <<>>)
               /\ UNCHANGED <<changedFiles, labelGlobs, teamLabelsToMembers, labels,
                              additionalLabels, shouldCloseAndReopenIssue>>
    /\ UNCHANGED <<hasPullRequest, prAuthor, configObject, prState, prLabels>>
    /\ UNCHANGED syncVars

\* lines 53-76, 81-100: the teams file returns or throws
GetTeams ==
    /\ lpc = "getTeams"
    /\ \E res \in {"ok", "error"} :
          IF res = "ok"
          THEN \E teamsData \in TeamsDataPool :
                  IF \E k \in 1..Len(teamsData) : ~teamsData[k].hasMembers
                  THEN /\ LThrow(res, <<>>)
                       /\ UNCHANGED <<teamLabelsToMembers, labels, additionalLabels,
                                      shouldCloseAndReopenIssue>>
                  ELSE /\ teamLabelsToMembers' = NewMap(TeamEntries(teamsData))
                       /\ Decide(changedFiles, labelGlobs,
                                 NewMap(TeamEntries(teamsData)), res)
          ELSE /\ LThrow(res, <<>>)
               /\ UNCHANGED <<teamLabelsToMembers, labels, additionalLabels,
                              shouldCloseAndReopenIssue>>
    /\ UNCHANGED <<hasPullRequest, prAuthor, configObject, changedFiles, labelGlobs,
                   prState, prLabels>>
    /\ UNCHANGED syncVars

\* lines 94-104: client.pulls.update({state: 'closed'}) returns or throws
ClosePr ==
    /\ lpc = "close"
    /\ \E res \in {"ok", "error"} :
          IF res = "ok"
          THEN /\ prState' = "closed"
               /\ LET todo == AddLabelsCall(labels) \o OpenCall(shouldCloseAndReopenIssue)
                  IN  LResume(AwaitOf(todo), FirstOf(todo), res)
               /\ UNCHANGED ldecided
          ELSE /\ LThrow(res, <<>>)
               /\ UNCHANGED prState
    /\ UNCHANGED <<hasPullRequest, prAuthor, configObject, changedFiles, labelGlobs,
                   teamLabelsToMembers, labels, additionalLabels,
                   shouldCloseAndReopenIssue, prLabels>>
    /\ UNCHANGED syncVars

\* lines 103-113, 219-224: client.issues.addLabels returns or throws
AddLabels ==
    /\ lpc = "addLabels"
    /\ \E res \in {"ok", "error"} :
          IF res = "ok"
          THEN /\ prLabels' = prLabels \cup Range(lcalls[Len(lcalls)].labels)
               /\ LET todo == OpenCall(shouldCloseAndReopenIssue)
                  IN  LResume(AwaitOf(todo), todo, res)
               /\ UNCHANGED ldecided
          ELSE /\ LThrow(res, <<>>)
               /\ UNCHANGED prLabels
    /\ UNCHANGED <<hasPullRequest, prAuthor, configObject, changedFiles, labelGlobs,
                   teamLabelsToMembers, labels, additionalLabels,
                   shouldCloseAndReopenIssue, prState>>
    /\ UNCHANGED syncVars

\* lines 107-113: client.pulls.update({state: 'open'}) returns or throws
OpenPr ==
    /\ lpc = "open"
    /\ \E res \in {"ok", "error"} :
          IF res = "ok"
          THEN /\ prState' = "open"
               /\ LResume("done", <<>>, res)
               /\ UNCHANGED ldecided
          ELSE /\ LThrow(res, <<>>)
               /\ UNCHANGED prState
    /\ UNCHANGED <<hasPullRequest, prAuthor, configObject, changedFiles, labelGlobs,
                   teamLabelsToMembers, labels, additionalLabels,
                   shouldCloseAndReopenIssue, prLabels>>
    /\ UNCHANGED syncVars

LabelNext ==
    \/ GetConfigurationContents
    \/ GetChangedFiles
    \/ GetTeams
    \/ ClosePr
    \/ AddLabels
    \/ OpenPr

SpecLabel == LabelInit /\ [][LabelNext]_vars

----------------------------------------------------------------------------
(* Properties of the team synchronisation run, checked under SpecSync *)

TeamIdx == 1..Len(teamData)

Mutating == {"createTeam", "addMember", "removeMember"}

\* the calls of the log that are for team k and of one of the operations `ops`
CallsFor(k, ops) ==
    {j \in 1..Len(calls) : calls[j].team = TeamSlug(k) /\ calls[j].op \in ops}

RemovesIssued(k) == {calls[j].user : j \in CallsFor(k, {"removeMember"})}
AddsIssued(k) == {calls[j].user : j \in CallsFor(k, {"addMember"})}

Desired(k) == Range(DesiredMembers(k))
Current(k) == Range(snap[k].members)

\* the fetch of team k returned the team and its members: the if branch of line 51
OnUpdatePath(k) == snap[k].fetched /\ snap[k].exists

\* the fetch of team k returned no team: the else branch of line 67
OnCreationPath(k) == snap[k].fetched /\ ~snap[k].exists

\* the loop of line 36 has gone past team k
Completed(k) == t > k

Failure(res) == res \in {"error", "noop"}

\* no call so far has failed (a get-team answering "not found" has not failed)
AllCallsSucceeded == \A j \in 1..Len(calls) : ~Failure(calls[j].res)

\* C1: on the update path the remove calls issued are those for current \ desired
\* and the add calls those for desired \ current: never more, all of them once the
\* team is done, in step with the two loops meanwhile; the two sets are disjoint;
\* no create-team is issued, and the authenticated user gets a remove call (one)
\* only as a member that is in current \ desired.
C1_UpdatePathDiff ==
    \A k \in TeamIdx :
        OnUpdatePath(k) =>
            LET toRemove == Current(k) \ Desired(k)
                toAdd == Desired(k) \ Current(k)
                creatorRemovals ==
                    {j \in CallsFor(k, {"removeMember"}) :
                        calls[j].user = authenticatedUserLogin}
            IN  /\ RemovesIssued(k) \subseteq toRemove
                /\ AddsIssued(k) \subseteq toAdd
                /\ RemovesIssued(k) \cap AddsIssued(k) = {}
                /\ Completed(k) => RemovesIssued(k) = toRemove /\ AddsIssued(k) = toAdd
                /\ (t = k /\ pc = "remove") =>
                      /\ RemovesIssued(k) = {existingMembers[j] : j \in 1..i} \ Desired(k)
                      /\ AddsIssued(k) = {}
                /\ (t = k /\ pc = "add") =>
                      /\ RemovesIssued(k) = toRemove
                      /\ AddsIssued(k) = {DesiredMembers(k)[j] : j \in 1..i} \ Current(k)
                /\ CallsFor(k, {"createTeam"}) = {}
                /\ Cardinality(creatorRemovals)
                      <= (IF authenticatedUserLogin \in toRemove THEN 1 ELSE 0)

\* a team was brought up to date with a member removed, a member added and the
\* authenticated user kept
C1_Witness ==
    \E k \in TeamIdx :
        /\ OnUpdatePath(k)
        /\ Completed(k)
        /\ RemovesIssued(k) # {}
        /\ AddsIssued(k) # {}
        /\ authenticatedUserLogin \in Current(k) \cap Desired(k)

\* C2: once the run has gone past a team with every call so far successful, the
\* team exists and its members are exactly the desired ones, whether it was absent
\* or present at the start; so a creator that is not desired is not a member.
C2_ConvergesToDesired ==
    \A k \in TeamIdx :
        (Completed(k) /\ AllCallsSucceeded) =>
            /\ ghTeams[TeamSlug(k)].exists
            /\ ghTeams[TeamSlug(k)].members = Desired(k)

\* a run ended with every call successful, having created a team whose creator
\* joined it and is not desired, and having updated a team that existed
C2_Witness ==
    /\ pc = "done"
    /\ AllCallsSucceeded
    /\ \E k \in TeamIdx :
          /\ ~ghInit[TeamSlug(k)].exists
          /\ creatorJoins
          /\ Desired(k) # {}
          /\ authenticatedUserLogin \notin Desired(k)
          /\ authenticatedUserLogin \notin ghTeams[TeamSlug(k)].members
    /\ \E k \in TeamIdx :
          /\ ghInit[TeamSlug(k)].exists
          /\ ghInit[TeamSlug(k)].members # Desired(k)

TeamOfSlug(slug) == CHOOSE k \in TeamIdx : TeamSlug(k) = slug

\* C3: after a successful create-team the next call is the creator's removal if and
\* only if the creator is not desired; a desired creator gets no remove call and
\* stays a member from the creation on.
C3_CreatorRemovedIffNotDesired ==
    \A j \in 1..Len(calls) :
        (calls[j].op = "createTeam" /\ calls[j].res = "ok") =>
            LET k == TeamOfSlug(calls[j].team)
                creatorDesired == authenticatedUserLogin \in Desired(k)
                removalNext ==
                    /\ j < Len(calls)
                    /\ calls[j + 1].op = "removeMember"
                    /\ calls[j + 1].user = authenticatedUserLogin
            IN  /\ removalNext <=> ~creatorDesired
                /\ creatorDesired =>
                      /\ authenticatedUserLogin \notin RemovesIssued(k)
                      /\ creatorJoins =>
                            authenticatedUserLogin \in ghTeams[TeamSlug(k)].members

\* C4: a team that exists with exactly the desired members gets no create-team,
\* add-member or remove-member call, and is left as it was.
C4_ConvergedTeamUntouched ==
    \A k \in TeamIdx :
        (ghInit[TeamSlug(k)].exists /\ ghInit[TeamSlug(k)].members = Desired(k)) =>
            /\ CallsFor(k, Mutating) = {}
            /\ ghTeams[TeamSlug(k)] = ghInit[TeamSlug(k)]

\* What does hold of a converged team: when its fetch succeeds, it gets no call.
ConvergedTeamUntouchedWhenFetched ==
    \A k \in TeamIdx :
        (OnUpdatePath(k) /\ Current(k) = Desired(k)) =>
            /\ CallsFor(k, Mutating) = {}
            /\ ghTeams[TeamSlug(k)] = ghInit[TeamSlug(k)]

\* C5: create-team is issued only after get-team answered "not found"; a get-team
\* or list-members call that failed otherwise ends the run with the failure status,
\* and no call follows it.
C5_CreateOnlyWhenAbsent ==
    \A j \in 1..Len(calls) :
        /\ calls[j].op = "createTeam" =>
              /\ j > 1
              /\ calls[j - 1].op = "getTeam"
              /\ calls[j - 1].res = "notfound"
        /\ (calls[j].op \in {"getTeam", "listMembers"} /\ calls[j].res = "error") =>
              /\ failed
              /\ pc = "done"
              /\ j = Len(calls)

\* C6: a remove-member answered with "not a member", or an add-member answered with
\* "already a member", does not end the run with the failure status.
C6_NoopErrorTolerated ==
    \A j \in 1..Len(calls) :
        (calls[j].op \in {"addMember", "removeMember"} /\ calls[j].res = "noop") =>
            ~(failed /\ j = Len(calls))

ApplyCall(gh, c) ==
    IF c.res # "ok" THEN gh
    ELSE CASE c.op = "createTeam" ->
                [gh EXCEPT ![c.team] =
                    [exists |-> TRUE,
                     members |-> IF creatorJoins THEN {authenticatedUserLogin} ELSE {}]]
           [] c.op = "removeMember" -> [gh EXCEPT ![c.team].members = @ \ {c.user}]
           [] c.op = "addMember" -> [gh EXCEPT ![c.team].members = @ \cup {c.user}]
           [] OTHER -> gh

\* GitHub's teams after the successful calls of `log`, in order, from `gh`
RECURSIVE Replay(_, _)
Replay(gh, log) ==
    IF log = <<>> THEN gh ELSE Replay(ApplyCall(gh, Head(log)), Tail(log))

\* C7: a failed create-team, add-member or remove-member call is the last call of
\* the run, which has ended with the failure status; and GitHub's teams are what the
\* successful calls made of them: none is undone, the failed call changed nothing.
C7_FailureStopsRunKeepsApplied ==
    /\ \A j \in 1..Len(calls) :
          (calls[j].op \in Mutating /\ Failure(calls[j].res)) =>
              /\ failed
              /\ pc = "done"
              /\ j = Len(calls)
    /\ ghTeams = Replay(ghInit, calls)

\* the run failed on a mutating call of the first team, after one that was applied
C7_Witness ==
    /\ failed
    /\ t = 1
    /\ Len(teamData) > 1
    /\ calls[Len(calls)].op \in Mutating
    /\ Failure(calls[Len(calls)].res)
    /\ \E j \in 1..(Len(calls) - 1) : calls[j].op \in Mutating /\ calls[j].res = "ok"
    /\ ghTeams # ghInit

----------------------------------------------------------------------------
(* Properties of the labeling run, checked under SpecLabel *)

\* the labels array as the loop of lines 82-87 left it, before line 90
GlobDerived == SubSeq(labels, 1, Len(labels) - Len(additionalLabels))

\* the globs configured for a label: a string is one glob, an array its elements
PatternsOf(value) == IF value.type = "string" THEN {value.str} ELSE Range(value.arr)

Rules == configObject.file_pattern_labels

CloseCalls == {j \in 1..Len(lcalls) : lcalls[j].op = "setState" /\ lcalls[j].state = "closed"}
OpenCalls == {j \in 1..Len(lcalls) : lcalls[j].op = "setState" /\ lcalls[j].state = "open"}
ApplyCalls == {j \in 1..Len(lcalls) : lcalls[j].op = "addLabels"}

\* C8: once the labels are computed, a rule's label is among the glob-derived labels
\* if and only if one of its globs matches one of the changed files; no other label
\* is glob-derived, and none at all when no file changed.
C8_GlobLabelIffSomeGlobMatchesSomeFile ==
    ldecided =>
        /\ \A r \in 1..Len(Rules) :
              Rules[r].label \in Range(GlobDerived)
                  <=> \E g \in PatternsOf(Rules[r].value) :
                         \E f \in Range(changedFiles) : Match(g, f)
        /\ Range(GlobDerived) \subseteq {Rules[r].label : r \in 1..Len(Rules)}
        /\ changedFiles = <<>> => GlobDerived = <<>>

\* two files changed; a rule of two globs gave its label though its first glob
\* matches no file and its second not the first file; another rule gave none
C8_Witness ==
    /\ ldecided
    /\ Len(changedFiles) = 2
    /\ \E r \in 1..Len(Rules) :
          /\ Rules[r].value.type = "array"
          /\ Len(Rules[r].value.arr) = 2
          /\ Rules[r].label \in Range(GlobDerived)
          /\ \A f \in Range(changedFiles) : ~Match(Rules[r].value.arr[1], f)
          /\ ~Match(Rules[r].value.arr[2], changedFiles[1])
    /\ \E r \in 1..Len(Rules) :
          /\ PatternsOf(Rules[r].value) # {}
          /\ Rules[r].label \notin Range(GlobDerived)

\* C9: the labels passed to apply-labels are, as a set, the glob-derived labels
\* together with the team-derived ones (each as addLabels passes it on, its '#'
\* characters removed), and no label is passed twice.
C9_AppliedLabelsAreUnionOnce ==
    \A j \in ApplyCalls :
        LET passed == lcalls[j].labels
            union == Range(GlobDerived) \cup Range(additionalLabels)
        IN  /\ Range(passed) = {StripHash(l) : l \in union}
            /\ \A a, b \in 1..Len(passed) : a # b => passed[a] # passed[b]

\* C10: from the moment the labels are computed, a close call is issued if and only
\* if the author has a team-derived label, and so is the reopening call of a run that
\* ends without failure; glob-derived labels alone cause neither. A call of the
\* cycle is issued only after the one before it returned successfully, in the order
\* close, apply-labels, reopen.
C10_ReopenCycleIffTeamLabels ==
    LET teamDerived == additionalLabels # <<>>
    IN  /\ ~ldecided => CloseCalls \cup OpenCalls \cup ApplyCalls = {}
        /\ ldecided =>
              /\ Cardinality(CloseCalls) = (IF teamDerived THEN 1 ELSE 0)
              /\ Cardinality(OpenCalls) <= (IF teamDerived THEN 1 ELSE 0)
              /\ (lpc = "done" /\ ~lfailed) => (OpenCalls # {} <=> teamDerived)
        /\ \A c \in CloseCalls : \A a \in ApplyCalls :
              c < a /\ lcalls[c].res = "ok"
        /\ \A a \in ApplyCalls : \A o \in OpenCalls :
              a < o /\ lcalls[a].res = "ok"
        /\ \A o \in OpenCalls :
              /\ ApplyCalls # {}
              /\ \E c \in CloseCalls : c < o /\ lcalls[c].res = "ok"

\* a run closed the pull request, applied the labels and reopened it
C10_Witness ==
    /\ lpc = "done"
    /\ ~lfailed
    /\ GlobDerived # <<>>
    /\ \E c \in CloseCalls : \E a \in ApplyCalls : \E o \in OpenCalls :
          /\ c < a
          /\ a < o
          /\ lcalls[o].res = "ok"
    /\ prState = "open"

\* the close call of the run returned successfully, or the run needs none
ReachedApply ==
    /\ ldecided
    /\ \A c \in CloseCalls : lcalls[c].res = "ok"
    /\ ~shouldCloseAndReopenIssue \/ CloseCalls # {}

\* C11: apply-labels is called at most once in a run and only with a non-empty
\* combined label list; once control reaches line 102 (no close call was needed, or
\* the close call returned) the call is issued if and only if the combined list is
\* non-empty; with an empty combined list the run makes no apply-labels, close or
\* reopen call.
C11_ApplyOnceIffLabels ==
    /\ Cardinality(ApplyCalls) <= 1
    /\ ApplyCalls # {} => ldecided /\ labels # <<>>
    /\ ReachedApply => (ApplyCalls # {} <=> labels # <<>>)
    /\ (ldecided /\ labels = <<>>) =>
          /\ ApplyCalls \cup CloseCalls \cup OpenCalls = {}
          /\ lpc = "done"
          /\ ~lfailed

\* a run with glob-derived labels only made one apply-labels call and no other
C11_Witness ==
    /\ lpc = "done"
    /\ ~lfailed
    /\ additionalLabels = <<>>
    /\ Len(labels) = 2
    /\ Cardinality(ApplyCalls) = 1
    /\ CloseCalls \cup OpenCalls = {}

\* the labels whose configured value is neither a string nor an array
Malformed == {Rules[r].label : r \in {q \in 1..Len(Rules) : Rules[q].value.type = "number"}}

\* getChangedFiles returned, so that line 44 read the rules
RulesRead == \E j \in 1..Len(lcalls) : lcalls[j].op = "listFiles" /\ lcalls[j].res = "ok"

\* C12: when the value configured for a label is neither a string nor an array, the
\* run that reads the rules ends with failure, its error names such a label, the
\* labels are never computed, and no apply-labels, close or reopen call is issued.
C12_MalformedRuleFailsRun ==
    Malformed # {} =>
        /\ ApplyCalls \cup CloseCalls \cup OpenCalls = {}
        /\ ~ldecided
        /\ prState = "open"
        /\ prLabels = {}
        /\ RulesRead =>
              /\ lpc = "done"
              /\ lfailed
              /\ lerror \in Malformed

\* the run failed naming the malformed label though the other rule is well-formed and
\* one of its globs matches a changed file
C12_Witness ==
    /\ RulesRead
    /\ lfailed
    /\ Len(Rules) = 2
    /\ Rules[2].value.type = "number"
    /\ lerror = Rules[2].label
    /\ Rules[1].value.type # "number"
    /\ \E g \in PatternsOf(Rules[1].value) : \E f \in Range(changedFiles) : Match(g, f)

\* without a pull request the run returns at line 33: it neither fails nor issues a
\* call (holds in every reachable state)
NoPullRequestRunIsSilent ==
    ~hasPullRequest =>
        /\ lpc = "done"
        /\ ~lfailed
        /\ lcalls = <<>>
        /\ prState = "open"
        /\ prLabels = {}

\* C13: when the event has no pull request, getTeamLabel applied to the result of
\* getPrAuthor is empty for every team-label map, also for one in which a team lists
\* a member named 'unknown', and the run neither fails nor issues a call.
C13_NoPullRequestNoTeamLabel ==
    ~hasPullRequest =>
        /\ \A tl \in TeamLabels : getTeamLabel(NewMap(tl), getPrAuthor) = <<>>
        /\ ~lfailed
        /\ ApplyCalls \cup CloseCalls \cup OpenCalls = {}

\* the rearrangements of a list
Orders(n) == {p \in [1..n -> 1..n] : \A a, b \in 1..n : a # b => p[a] # p[b]}
Rearranged(seq) == {[k \in 1..Len(seq) |-> seq[p[k]]] : p \in Orders(Len(seq))}

\* the glob-derived labels of this state are, as a set, those computed for every
\* other order of the rules and every other order of the changed files
SameForEveryOrder ==
    \A rules \in Rearranged(Rules) : \A files \in Rearranged(changedFiles) :
        LET globs == getLabelGlobMapFromObject(rules)
        IN  /\ globs.ok
            /\ Range(GlobLabels(files, globs.map)) = Range(GlobDerived)

\* the state left by the step that ran lines 81-90: the labels are computed and no
\* call issued after them has returned (labels, changedFiles and configObject are
\* not assigned again in the run)
LabelsJustComputed ==
    /\ ldecided
    /\ \A j \in ApplyCalls \cup CloseCalls \cup OpenCalls : lcalls[j].res = "pending"

\* C14: the set of glob-derived labels a run computes is the set it computes for
\* the same rules in any other order and the same changed files in any other order.
C14_GlobLabelsOrderIndependent == LabelsJustComputed => SameForEveryOrder

\* two rules and two different files; only the second rule matches, and only the
\* second file
C14_Witness ==
    /\ ldecided
    /\ Len(Rules) = 2
    /\ Len(changedFiles) = 2
    /\ changedFiles[1] # changedFiles[2]
    /\ GlobDerived = <<Rules[2].label>>
    /\ \A g \in PatternsOf(Rules[2].value) : ~Match(g, changedFiles[1])
    /\ \A g \in PatternsOf(Rules[1].value) : ~Match(g, changedFiles[2])

----------------------------------------------------------------------------
(* Further properties of the team synchronisation run, checked under SpecSync *)

Members(k) == ghTeams[TeamSlug(k)].members

\* the usernames whose membership of team `slug` differs between two states of GitHub
Changed(gh1, gh2, slug) ==
    (gh1[slug].members \ gh2[slug].members) \cup (gh2[slug].members \ gh1[slug].members)

\* the membership of an updated team lies between current /\ desired and
\* current \/ desired
UpdatePathMembersBounded ==
    \A k \in TeamIdx :
        OnUpdatePath(k) =>
            /\ (Desired(k) \cap Current(k)) \subseteq Members(k)
            /\ Members(k) \subseteq (Current(k) \cup Desired(k))
            /\ ghTeams[TeamSlug(k)].exists

\* a step changes the membership of at most one username, of at most one team
OneUsernamePerStep ==
    /\ \A s \in Slugs : Cardinality(Changed(ghTeams, ghTeams', s)) <= 1
    /\ \A s1, s2 \in Slugs :
          (Changed(ghTeams, ghTeams', s1) # {} /\ Changed(ghTeams, ghTeams', s2) # {})
              => s1 = s2

\* C15: in every reachable state, also the one a failed add or remove call leaves,
\* every username both desired and in the fetched members of an updated team is a
\* member of it, every member of it is in the fetched members or desired, and every
\* step changes the membership of at most one username.
C15_UpdatePathPartialStateWellDefined ==
    /\ []UpdatePathMembersBounded
    /\ [][OneUsernamePerStep]_vars

\* an add call failed after a successful remove call for the same updated team, which
\* is left without the removed member, with the kept one and without the missing one
C15_Witness ==
    /\ failed
    /\ pc = "done"
    /\ t \in TeamIdx
    /\ OnUpdatePath(t)
    /\ calls[Len(calls)].op = "addMember"
    /\ calls[Len(calls)].res = "error"
    /\ \E j \in CallsFor(t, {"removeMember"}) :
          calls[j].res = "ok" /\ calls[j].user \notin Members(t)
    /\ Desired(t) \cap Current(t) # {}
    /\ Members(t) # Desired(t)

Returned(j) == calls[j].res # "pending"

\* C16: the mutating calls of a team follow a fixed order. On the update path every
\* remove-member call has returned before the first add-member call is issued. On
\* the creation path create-team has returned successfully before the creator's
\* removal is issued, which has returned before the first add-member call is issued,
\* and no add-member call is issued without the create-team. No add-member or
\* remove-member call of a team is issued before its get-team call (and its
\* list-members call, when one is made) has returned.
C16_MutatingCallsInFixedOrder ==
    \A k \in TeamIdx :
        LET fetches == CallsFor(k, {"getTeam", "listMembers"})
            creates == CallsFor(k, {"createTeam"})
            removes == CallsFor(k, {"removeMember"})
            adds == CallsFor(k, {"addMember"})
        IN  /\ \A r \in removes : \A a \in adds : r < a /\ Returned(r)
            /\ \A c \in creates :
                  /\ \A r \in removes : c < r /\ calls[c].res = "ok"
                  /\ \A a \in adds : c < a /\ calls[c].res = "ok"
            /\ removes \cup adds # {} =>
                  /\ snap[k].fetched
                  /\ CallsFor(k, {"getTeam"}) # {}
                  /\ OnUpdatePath(k) => CallsFor(k, {"listMembers"}) # {} /\ creates = {}
                  /\ OnCreationPath(k) => creates # {}
            /\ \A f \in fetches : \A m \in creates \cup removes \cup adds :
                  f < m /\ Returned(f)

\* a run updated one team with a removal and then an addition, and created another,
\* removing the creator before adding a member
C16_Witness ==
    /\ pc = "done"
    /\ ~failed
    /\ \E k \in TeamIdx :
          /\ OnUpdatePath(k)
          /\ CallsFor(k, {"removeMember"}) # {}
          /\ CallsFor(k, {"addMember"}) # {}
    /\ \E k \in TeamIdx :
          /\ OnCreationPath(k)
          /\ CallsFor(k, {"createTeam"}) # {}
          /\ CallsFor(k, {"removeMember"}) # {}
          /\ CallsFor(k, {"addMember"}) # {}

\* the calls that have been issued and have not returned
InFlight == {j \in 1..Len(calls) : ~Returned(j)}

\* the calls made for a team (the others are the two calls of run, lines 14 and 19)
TeamCalls == {j \in 1..Len(calls) : calls[j].team \in Slugs}

\* C17: the teams are processed one after another. A call is issued only when every
\* call before it has returned, so that at most one call is in flight and never
\* calls of two teams; the calls of a team are issued after all calls of the teams
\* before it in the team data, and the team in hand is the one of the last call.
C17_TeamsStrictlySequential ==
    /\ \A j \in 1..Len(calls) : j < Len(calls) => Returned(j)
    /\ \A j1, j2 \in InFlight : calls[j1].team = calls[j2].team
    /\ \A j1, j2 \in TeamCalls :
          j1 < j2 => TeamOfSlug(calls[j1].team) <= TeamOfSlug(calls[j2].team)
    /\ \A j \in TeamCalls : TeamOfSlug(calls[j].team) <= t
    /\ \A k \in TeamIdx : k < t => CallsFor(k, {"getTeam"}) # {}

\* the second team's fetch is in flight after the first team, which had members
\* removed and added, and all calls of the first team have returned
C17_Witness ==
    /\ Len(teamData) = 2
    /\ t = 2
    /\ pc = "getByName"
    /\ InFlight = {Len(calls)}
    /\ CallsFor(1, {"removeMember"}) # {}
    /\ CallsFor(1, {"addMember"}) # {}

----------------------------------------------------------------------------
(* The earlier variant of the team synchronisation run (part_000): run iterates the
   team names with forEach and an async callback. forEach calls the callback for
   every team in turn; each call runs to its first await, which issues the team's
   get-team call, and returns a promise that nothing awaits. The responses then
   arrive in any order. Of the shared variables it uses teamData, ghTeams, pc (run's
   position), calls, snap (what each callback got from getExistingTeamAndMembers)
   and failed. *)

ForEachInit ==
    /\ teamData = <<>>
    /\ ghTeams \in [Slugs -> TeamStates]
    /\ creatorJoins = FALSE
    /\ authenticatedUserLogin = NoUser
    /\ pc = "getTeamData"
    /\ t = 0
    /\ i = 0
    /\ existingTeam = FALSE
    /\ existingMembers = <<>>
    /\ failed = FALSE
    /\ calls = <<Call("getContents", "-", NoUser)>>
    /\ snap = [k \in 1..NumTeams |-> NoSnap]
    /\ ghInit = ghTeams
    /\ LabelIdle

\* lines 18-24, 50: the get-team calls that the callbacks issue while forEach runs
RECURSIVE ForEachCalls(_, _)
ForEachCalls(data, k) ==
    IF k > Len(data) THEN <<>>
    ELSE <<Call("getTeam", Slugify(data[k].name), NoUser)>> \o ForEachCalls(data, k + 1)

\* the call of the log for team k, of operation op, that is in flight
PendingCall(k, op) ==
    {j \in 1..Len(calls) :
        calls[j].op = op /\ calls[j].team = TeamSlug(k) /\ calls[j].res = "pending"}

\* lines 14-38: getTeamData returns or throws; on its return forEach starts every
\* callback and run returns
ForEachGetTeamData ==
    /\ pc = "getTeamData"
    /\ \E res \in {"ok", "error"} :
          IF res = "ok"
          THEN /\ teamData' \in TeamDataPool
               /\ calls' = Settle(res) \o ForEachCalls(teamData', 1)
               /\ pc' = "done"
               /\ UNCHANGED failed
          ELSE /\ calls' = Settle(res)
               /\ pc' = "done"
               /\ failed' = TRUE
               /\ UNCHANGED teamData
    /\ UNCHANGED <<ghTeams, creatorJoins, authenticatedUserLogin, t, i,
                   existingTeam, existingMembers, snap, ghInit>>
    /\ UNCHANGED labelVars

\* lines 50-56, 63-67, 26-33: the get-team call of team k's callback returns or
\* throws; an exception is caught at line 63 and the callback ends
CallbackGetByName(k) ==
    /\ PendingCall(k, "getTeam") # {}
    /\ LET j == CHOOSE c \in PendingCall(k, "getTeam") : TRUE
       IN  \E res \in (IF ghTeams[TeamSlug(k)].exists THEN {"ok", "error"}
                                                      ELSE {"notfound", "error"}) :
              IF res = "ok"
              THEN /\ calls' = Append([calls EXCEPT ![j].res = res],
                                      Call("listMembers", TeamSlug(k), NoUser))
                   /\ UNCHANGED snap
              ELSE /\ calls' = [calls EXCEPT ![j].res = res]
                   /\ snap' = [snap EXCEPT ![k] =
                                  [fetched |-> TRUE, exists |-> FALSE, members |-> <<>>]]
    /\ UNCHANGED <<teamData, ghTeams, creatorJoins, authenticatedUserLogin, pc, t, i,
                   existingTeam, existingMembers, failed, ghInit>>
    /\ UNCHANGED labelVars

\* lines 57-67, 26-33: the list-members call of team k's callback returns or throws;
\* the callback ends
CallbackListMembers(k) ==
    /\ PendingCall(k, "listMembers") # {}
    /\ LET j == CHOOSE c \in PendingCall(k, "listMembers") : TRUE
       IN  \E res \in {"ok", "error"} :
              /\ calls' = [calls EXCEPT ![j].res = res]
              /\ snap' = [snap EXCEPT ![k] =
                    IF res = "ok"
                    THEN [fetched |-> TRUE, exists |-> TRUE,
                          members |-> ListLogins(ghTeams[TeamSlug(k)].members)]
                    ELSE [fetched |-> TRUE, exists |-> FALSE, members |-> <<>>]]
    /\ UNCHANGED <<teamData, ghTeams, creatorJoins, authenticatedUserLogin, pc, t, i,
                   existingTeam, existingMembers, failed, ghInit>>
    /\ UNCHANGED labelVars

ForEachNext ==
    \/ ForEachGetTeamData
    \/ \E k \in TeamIdx : CallbackGetByName(k)
    \/ \E k \in TeamIdx : CallbackListMembers(k)

SpecForEach == ForEachInit /\ [][ForEachNext]_vars

\* the callback of team k has run to its end
Processed(k) == snap[k].fetched

\* the snapshot fetches in flight are those of one team at most
OneFetchAtATime ==
    \A j1, j2 \in InFlight :
        (calls[j1].team \in Slugs /\ calls[j2].team \in Slugs)
            => calls[j1].team = calls[j2].team

\* run has completed only if every team has been processed
RunAwaitsEveryTeam == pc = "done" => \A k \in TeamIdx : Processed(k)

\* once every callback has ended, a call that threw has set the failure status
ErrorsReachCatch ==
    (pc = "done" /\ InFlight = {}) =>
        ((\E j \in 1..Len(calls) : calls[j].res = "error") => failed)

\* C18: in the forEach variant the snapshot fetches of two teams are never in flight
\* together, run does not complete before every team has been processed, and a
\* call that threw while a team was processed has set the failure status.
C18_ForEachSequentialAwaited ==
    /\ OneFetchAtATime
    /\ RunAwaitsEveryTeam
    /\ ErrorsReachCatch

----------------------------------------------------------------------------
(* A further property of the labeling run, checked under SpecLabel *)

\* the run closed the pull request: its close call returned successfully
ClosedByRun == \E c \in CloseCalls : lcalls[c].res = "ok"

\* C19: a run that closed the pull request has, when it ends, issued the reopening
\* call, also when the apply-labels call between the two failed; and the pull
\* request is open again once that call has returned successfully.
C19_ClosedPrReopenedAtEnd ==
    (lpc = "done" /\ ClosedByRun) =>
        /\ OpenCalls # {}
        /\ (\A o \in OpenCalls : lcalls[o].res = "ok") => prState = "open"

====
